---- MODULE Spec2Model ----
(***************************************************************************)
(* Model of the resampling cells of src/bootstrap.ipynb.                   *)
(*                                                                         *)
(* The notebook is run by one kernel: its state is the kernel's global     *)
(* names (sample, ctr, samples, diffs, ...) and the state of NumPy's       *)
(* process-wide random generator.  A cell is executed from top to bottom;  *)
(* a loop cell is modelled by one action for the statements before the     *)
(* loop, one action per loop iteration and one action for the loop exit    *)
(* and the statements after it.  Cells may be executed, and re-executed,   *)
(* in any order, one at a time.                                            *)
(*                                                                         *)
(* Numbers: the notebook computes with floats; the model computes with     *)
(* exact rationals [num, den] in lowest terms (den > 0), and den = 0       *)
(* stands for NaN (the mean of an empty array).  Float rounding is not     *)
(* modelled.                                                               *)
(***************************************************************************)
EXTENDS Integers, Sequences, FiniteSets, TLC

----------------------------------------------------------------------------
(* Bounds of the model *)

\* number of states of the random generator (MT19937 has 2^19937 - 1)
RngMod == 1009
\* the generator starts the session in one of the states 0..MaxSeed
MaxSeed == 7
\* largest observation in a data set
MaxValue == 1
\* largest resample count tried for a loop (1000 and 10000 in the source)
MaxSamples == 2
\* number of cell executions followed in one session
MaxRuns == 2
\* number of cell executions followed in a session over one data set
SessionRuns == 4
\* largest stride and shift of the coefficient lists tried
MaxStride == 4
MaxShift == 2
\* len(sample), the literal 1000 of lines 208 and 270
SampleSize == 2
\* len(berlin['Price'])
BerlinLen == 1
\* largest size of one of the two compared groups
MaxLen == 2
\* largest size of the pooled universe of grp_1 and grp_2
MaxPool == 3
\* number of rows of the diamonds table
DiamondRows == 3
\* number of rows of df_plus_y, the 100 of range(100) at lines 694 and 719
RegRows == 3
\* largest resample size tried in the regression loops (size=10 in the source)
MaxSize == 3
\* the regression tables tried are Table(0), ..., Table(MaxTable)
MaxTable == 2
\* number of cell executions followed in a session of the regression cells
RegRuns == 2
\* the coefficient lists of a session are rotated by 1..MaxRotation places
MaxRotation == 2

----------------------------------------------------------------------------
(* Constants of the notebook *)

\* range(1000): the number of coefficients in X1_coefs and in X2_coefs
NCoefs == 1000
\* coefs_sorted[24]
LowerIndex == 24
\* coefs_sorted[974]
UpperIndex == 974
\* make_regression(n_features=2): the predictors X1 and X2
NPredictors == 2

----------------------------------------------------------------------------
(* Exact arithmetic standing for the notebook's floats *)

RECURSIVE GCD(_, _)
GCD(m, n) == IF n = 0 THEN m ELSE GCD(n, m % n)

AbsInt(n) == IF n < 0 THEN -n ELSE n

NaN == [num |-> 0, den |-> 0]

IsNaN(x) == x.den = 0

\* n / d for integers n, d with d > 0, in lowest terms
Rat(n, d) ==
    LET g == GCD(AbsInt(n), d)
    IN  [num |-> n \div g, den |-> d \div g]

Sub(x, y) ==
    IF IsNaN(x) \/ IsNaN(y) THEN NaN
    ELSE Rat(x.num * y.den - y.num * x.den, x.den * y.den)

\* abs(): NaN stays NaN
Abs(x) == [num |-> AbsInt(x.num), den |-> x.den]

\* x > y; every comparison with NaN is False
Gt(x, y) == ~IsNaN(x) /\ ~IsNaN(y) /\ x.num * y.den > y.num * x.den

\* x >= y; every comparison with NaN is False
Ge(x, y) == ~IsNaN(x) /\ ~IsNaN(y) /\ x.num * y.den >= y.num * x.den

RECURSIVE Sum(_)
Sum(s) == IF s = <<>> THEN 0 ELSE Head(s) + Sum(Tail(s))

\* ndarray.mean / Series.mean / np.mean: NaN for an empty array
Mean(s) == IF Len(s) = 0 THEN NaN ELSE Rat(Sum(s), Len(s))

\* np.zeros(k)
Zeros(k) == [j \in 1..k |-> Rat(0, 1)]

\* ascending sort of a sequence of integers (insertion sort)
RECURSIVE Insert(_, _)
Insert(x, s) ==
    IF s = <<>> THEN <<x>>
    ELSE IF x <= Head(s) THEN <<x>> \o s
    ELSE <<Head(s)>> \o Insert(x, Tail(s))

RECURSIVE SortInts(_)
SortInts(s) == IF s = <<>> THEN <<>> ELSE Insert(Head(s), SortInts(Tail(s)))

\* np.percentile(a=s, q=95), linear interpolation between the two nearest
\* order statistics; s is not empty
Percentile95(s) ==
    LET t  == SortInts(s)
        m  == 95 * (Len(s) - 1)
        lo == m \div 100
        fr == m % 100
    IN  IF fr = 0 THEN Rat(t[lo + 1], 1)
        ELSE Rat(100 * t[lo + 1] + fr * (t[lo + 2] - t[lo + 1]), 100)

\* the number of elements of the ascending sequence y of floats that are
\* below v, searched for between lo and hi (binary search)
RECURSIVE CountBelow(_, _, _, _)
CountBelow(y, v, lo, hi) ==
    IF lo >= hi THEN lo
    ELSE LET mid == (lo + hi) \div 2
         IN  IF Gt(v, y[mid + 1]) THEN CountBelow(y, v, mid + 1, hi)
             ELSE CountBelow(y, v, lo, mid)

\* the merge of two ascending sequences: the middle element of x splits
\* both, and the halves are merged
RECURSIVE Merge(_, _)
Merge(x, y) ==
    IF x = <<>> THEN y
    ELSE IF y = <<>> THEN x
    ELSE LET h == (Len(x) + 1) \div 2
             c == CountBelow(y, x[h], 0, Len(y))
         IN  Merge(SubSeq(x, 1, h - 1), SubSeq(y, 1, c))
             \o <<x[h]>>
             \o Merge(SubSeq(x, h + 1, Len(x)), SubSeq(y, c + 1, Len(y)))

\* sorted() that leaves the list as it is
sorted_none(s) == s

\* sorted(s): a new list, ascending (merge sort)
RECURSIVE sorted(_)
sorted(s) ==
    IF Len(s) <= 1 THEN s
    ELSE LET h == Len(s) \div 2
         IN  Merge(sorted(SubSeq(s, 1, h)), sorted(SubSeq(s, h + 1, Len(s))))

\* the elements of s at the positions where the mask holds, in order
RECURSIVE Select(_, _)
Select(s, mask) ==
    IF s = <<>> THEN <<>>
    ELSE (IF Head(mask) THEN <<Head(s)>> ELSE <<>>)
         \o Select(Tail(s), Tail(mask))

----------------------------------------------------------------------------
(* NumPy's global random generator: a deterministic generator whose state  *)
(* is advanced by every draw.                                              *)

NextRng(s) == (7 * s + 3) % RngMod

\* np.random.seed(k)
Seed(k) == k % RngMod

\* np.random.choice(u, size=k, replace=True): k independent draws from u
RECURSIVE Choice(_, _, _)
Choice(u, k, s) ==
    IF k = 0 THEN [out |-> <<>>, rng |-> s]
    ELSE LET rest == Choice(u, k - 1, NextRng(s))
         IN  [out |-> <<u[(s % Len(u)) + 1]>> \o rest.out, rng |-> rest.rng]

\* the without-replacement draw behind Series.sample(frac=1, replace=False):
\* a Fisher-Yates shuffle of x, position i exchanged with a position <= i
RECURSIVE Permute(_, _, _)
Permute(x, i, s) ==
    IF i <= 1 THEN [out |-> x, rng |-> s]
    ELSE LET j == (s % i) + 1
             y == [x EXCEPT ![i] = x[j], ![j] = x[i]]
         IN  Permute(y, i - 1, NextRng(s))

\* a pandas Series is a sequence of rows [idx, val]; a fresh column has the
\* RangeIndex 0, 1, ...
Series(vals) == [j \in 1..Len(vals) |-> [idx |-> j - 1, val |-> vals[j]]]

\* Series.reset_index(drop=True)
ResetIndex(ser) == [j \in 1..Len(ser) |-> [idx |-> j - 1, val |-> ser[j].val]]

\* shuffle drawing with replacement: sample(frac=1, replace=True)
shuffle_replace(series, s) ==
    LET r == Choice(series, Len(series), s)
    IN  [out |-> ResetIndex(r.out), rng |-> r.rng]

\* def shuffle(series)
shuffle(series, s) ==
    LET r == Permute(series, Len(series), s)
    IN  [out |-> ResetIndex(r.out), rng |-> r.rng]

\* frame[name] = ser: the column takes, in every row of the frame, the value
\* of ser with that row's index label
AssignColumn(rows, ser) ==
    [j \in 1..rows |->
        LET hits == {k \in 1..Len(ser) : ser[k].idx = j - 1}
        IN  ser[CHOOSE k \in hits : TRUE].val]

\* bootstrap splitting the resample at len(b) instead of len(a)
bootstrap_split_b(x, y, s) ==
    LET universe == x \o y
        r        == Choice(universe, Len(universe), s)
        universe_shuffled == r.out
    IN  [new_a |-> SubSeq(universe_shuffled, 1, Len(y)),
         new_b |-> SubSeq(universe_shuffled, Len(y) + 1, Len(universe_shuffled)),
         rng   |-> r.rng]

\* def bootstrap(a, b)
bootstrap(x, y, s) ==
    LET universe == x \o y
        r        == Choice(universe, Len(universe), s)
        universe_shuffled == r.out
    IN  [new_a |-> SubSeq(universe_shuffled, 1, Len(x)),
         new_b |-> SubSeq(universe_shuffled, Len(x) + 1, Len(universe_shuffled)),
         rng   |-> r.rng]

----------------------------------------------------------------------------
VARIABLES
    rng,       \* state of np.random's global generator
    pc,        \* the cell being executed, "idle" between cells
    it,        \* completed iterations of the running loop
    n,         \* the resample count of the running loop
    budget,    \* cell executions left in the session
    err,       \* exception raised by the last cell, "none" if none
    sample,                  \* line 208, reassigned at line 610
    grp_1, grp_2, orig_mean, \* lines 426-428
    clarity, price,          \* columns of the diamonds table
    vvs1_mean, si2_mean,     \* lines 500-501
    berlin_price,            \* berlin['Price']
    bootstrap_samples, bootstrap_sample_means, bootstrap_sample_95pcts,
    universe_shuffled,       \* the resample drawn by the last bootstrap(a, b)
    a, b, ctr, samples,      \* lines 438-443
    printed,                 \* what line 444 printed, <<>> if nothing
    resampled,               \* history: <<a, b>> of every iteration
    Shuffled,                \* diamonds['Shuffled']
    diffs, iterations, p,    \* lines 536-561; p is <<>> until assigned
    shuffles,                \* history: the Shuffled column of every iteration
    means,                   \* line 607
    df_plus_y,               \* line 681: rows [X1, X2, Y]
    size,                    \* the size= of the running regression loop
    inds,                    \* lines 694, 719
    lr,                      \* lines 696, 721: lr.coef_, <<>> before a fit
    X1_coefs, X2_coefs,      \* lines 692-697, 717-722
    coefs_sorted,            \* lines 706, 731
    printed706, printed731,  \* what lines 707-708 and 732-733 printed
    rng0,                    \* history: generator state when the loop began
    seed,                    \* history: the seed the generator was started from
    log                      \* history: the completed resampling runs

kernel  == <<rng, pc, it, n, budget, err, rng0, seed, log>>
data    == <<grp_1, grp_2, orig_mean, clarity, price, vvs1_mean, si2_mean,
             berlin_price>>
cell257 == <<bootstrap_samples, bootstrap_sample_means, bootstrap_sample_95pcts>>
cell438 == <<universe_shuffled, a, b, ctr, samples, printed, resampled>>
cell536 == <<Shuffled, diffs, iterations, shuffles>>
cell692 == <<df_plus_y, size, inds, lr>>
cell706 == <<cell692, X1_coefs, X2_coefs, coefs_sorted, printed706, printed731>>
vars    == <<kernel, data, sample, cell257, cell438, cell536, p, means, cell706>>

----------------------------------------------------------------------------
(* The data sets the notebook loads *)

Values == 0..MaxValue

\* all sequences over Values of the given length
SeqsOfLen(k) == [1..k -> Values]

\* line 208: a sample of SampleSize observations
Samples == SeqsOfLen(SampleSize)

\* lines 402-403, 426-427: the control and the experiment group; one of the
\* two may be empty
GroupPairs ==
    {g \in (UNION {SeqsOfLen(k) : k \in 0..MaxLen})
           \X (UNION {SeqsOfLen(k) : k \in 0..MaxLen}) :
        /\ Len(g[1]) + Len(g[2]) <= MaxPool
        /\ Len(g[1]) + Len(g[2]) >= 1
        /\ Len(g[2]) >= 1}

Clarities == {"SI2", "VVS1", "IF"}

\* line 473: the diamonds table, every row a clarity and a price
Diamonds ==
    {d \in [1..DiamondRows -> Clarities] \X SeqsOfLen(DiamondRows) :
        /\ \E j \in 1..DiamondRows : d[1][j] = "SI2"
        /\ \E j \in 1..DiamondRows : d[1][j] = "VVS1"
        /\ \A j \in 1..(DiamondRows - 1) :
              (d[1][j] = "VVS1" => d[1][j + 1] # "SI2")
              /\ (d[1][j] = "IF" => d[1][j + 1] = "IF")}

\* line 580: the prices of the Berlin table
BerlinPrices == SeqsOfLen(BerlinLen)

\* the rows of the given clarity
Mask(c) == [j \in 1..Len(clarity) |-> clarity[j] = c]

\* line 428
OrigMean(g1, g2) == Sub(Mean(g2), Mean(g1))

\* lines 546-547
MeanDiff(col) ==
    Sub(Mean(Select(col, Mask("SI2"))), Mean(Select(col, Mask("VVS1"))))

\* lines 641, 680-681: the regression table, every row two predictors and
\* the response
Table(t) ==
    [j \in 1..RegRows |->
        [X1 |-> j - 1, X2 |-> ((j - 1) * (j - 1) + t) % 3, Y |-> (2 * j + t * j) % 4]]

\* the inputs tried: one data set is varied, the others are held at their
\* first value
DefaultSample  == [j \in 1..SampleSize |-> j % (MaxValue + 1)]
DefaultGroups  == << <<0>>, <<MaxValue>> >>
DefaultDiamond == << [j \in 1..DiamondRows |->
                        IF j = 1 THEN "SI2" ELSE IF j = 2 THEN "VVS1" ELSE "IF"],
                     [j \in 1..DiamondRows |-> j % (MaxValue + 1)] >>
DefaultBerlin  == [j \in 1..BerlinLen |-> j % (MaxValue + 1)]

Inputs ==
    {[s |-> x, g |-> DefaultGroups, d |-> DefaultDiamond, bp |-> DefaultBerlin] :
        x \in Samples}
    \cup
    {[s |-> DefaultSample, g |-> x, d |-> DefaultDiamond, bp |-> DefaultBerlin] :
        x \in GroupPairs}
    \cup
    {[s |-> DefaultSample, g |-> DefaultGroups, d |-> x, bp |-> DefaultBerlin] :
        x \in Diamonds}
    \cup
    {[s |-> DefaultSample, g |-> DefaultGroups, d |-> DefaultDiamond, bp |-> x] :
        x \in BerlinPrices}

----------------------------------------------------------------------------
(* The kernel after the data-loading cells (lines 16-24, 208, 402-403,      *)
(* 426-428, 473, 500-501, 580) have run                                    *)

InitKernel(inputs, cells) ==
    /\ rng \in 0..MaxSeed
    /\ pc = "idle" /\ it = 0 /\ n = 0 /\ budget = cells /\ err = "none"
    /\ rng0 = 0 /\ seed = -1 /\ log = <<>>
    /\ \E in \in inputs :
        /\ sample = in.s
        /\ grp_1 = in.g[1] /\ grp_2 = in.g[2]
        /\ orig_mean = OrigMean(in.g[1], in.g[2])
        /\ clarity = in.d[1] /\ price = in.d[2]
        /\ vvs1_mean = Mean(Select(in.d[2], [j \in 1..DiamondRows |-> in.d[1][j] = "VVS1"]))
        /\ si2_mean = Mean(Select(in.d[2], [j \in 1..DiamondRows |-> in.d[1][j] = "SI2"]))
        /\ berlin_price = in.bp
    /\ bootstrap_samples = <<>>
    /\ bootstrap_sample_means = <<>>
    /\ bootstrap_sample_95pcts = <<>>
    /\ universe_shuffled = <<>> /\ a = <<>> /\ b = <<>>
    /\ ctr = 0 /\ samples = -1 /\ printed = <<>> /\ resampled = <<>>
    /\ Shuffled = <<>> /\ diffs = <<>> /\ iterations = -1 /\ p = <<>>
    /\ shuffles = <<>> /\ means = <<>>
    /\ size = 0 /\ inds = <<>> /\ lr = <<>>

\* the regression cells (lines 692-697, 717-722) have not run
InitWith(inputs, cells) ==
    /\ InitKernel(inputs, cells)
    /\ df_plus_y = Table(0)
    /\ X1_coefs = <<>> /\ X2_coefs = <<>>
    /\ coefs_sorted = <<>> /\ printed706 = <<>> /\ printed731 = <<>>

\* a short session over every data set tried
Init == InitWith(Inputs, MaxRuns)

\* a longer session over the first data set
InitSession ==
    InitWith({[s |-> DefaultSample, g |-> DefaultGroups, d |-> DefaultDiamond,
               bp |-> DefaultBerlin]}, SessionRuns)

\* a cell is started: the kernel is idle
StartCell(name, count) ==
    /\ pc = "idle"
    /\ budget > 0
    /\ budget' = budget - 1
    /\ pc' = name
    /\ it' = 0
    /\ n' = count
    /\ err' = "none"

\* a loop running one iteration too many: range(count + 1)
StepCell_one_more(name) ==
    /\ pc = name
    /\ it <= n
    /\ it' = it + 1
    /\ UNCHANGED <<pc, n, budget, err, rng0, seed, log>>

\* one more iteration of the running loop
StepCell(name) ==
    /\ pc = name
    /\ it < n
    /\ it' = it + 1
    /\ UNCHANGED <<pc, n, budget, err, rng0, seed, log>>

\* the loop of the running cell is left and the cell ends
EndCell(name, input, out, error) ==
    /\ pc = name
    /\ it >= n
    /\ pc' = "idle"
    /\ err' = error
    /\ log' = Append(log, [cell |-> name, seed |-> seed, rng0 |-> rng0,
                           input |-> input, out |-> out, err |-> error])
    /\ UNCHANGED <<rng, it, n, budget, rng0, seed>>

----------------------------------------------------------------------------
(* Lines 257-280: means and 95th percentiles of bootstrap samples *)

\* the cell without its np.random.seed(1)
Start257_unseeded ==
    \E count \in 0..MaxSamples :
        /\ StartCell("cell257", count)
        /\ rng0' = rng
        /\ bootstrap_samples' = <<>>
        /\ bootstrap_sample_means' = Zeros(count)
        /\ bootstrap_sample_95pcts' = Zeros(count)
        /\ UNCHANGED <<rng, seed, log, data, cell706, sample, cell438, cell536, p, means>>

Start257 ==
    \E count \in 0..MaxSamples :
        /\ StartCell("cell257", count)
        /\ rng' = Seed(1)
        /\ rng0' = Seed(1)
        /\ seed' = 1
        /\ bootstrap_samples' = <<>>
        /\ bootstrap_sample_means' = Zeros(count)
        /\ bootstrap_sample_95pcts' = Zeros(count)
        /\ UNCHANGED <<log, data, cell706, sample, cell438, cell536, p, means>>

Iter257 ==
    /\ StepCell("cell257")
    /\ LET r == Choice(sample, SampleSize, rng)
           bootstrap_sample == r.out
       IN  /\ rng' = r.rng
           /\ bootstrap_samples' = Append(bootstrap_samples, bootstrap_sample)
           /\ bootstrap_sample_means' =
                [bootstrap_sample_means EXCEPT ![it + 1] = Mean(bootstrap_sample)]
           /\ bootstrap_sample_95pcts' =
                [bootstrap_sample_95pcts EXCEPT ![it + 1] = Percentile95(bootstrap_sample)]
    /\ UNCHANGED <<data, cell706, sample, cell438, cell536, p, means>>

End257 ==
    /\ EndCell("cell257", <<sample, n>>,
               <<bootstrap_sample_means, bootstrap_sample_95pcts>>, "none")
    /\ UNCHANGED <<data, cell706, sample, cell257, cell438, cell536, p, means>>

----------------------------------------------------------------------------
(* Lines 438-444: p-value of the two-sample bootstrap *)

Start438 ==
    \E count \in 0..MaxSamples :
        /\ StartCell("cell438", count)
        /\ rng0' = rng
        /\ ctr' = 0
        /\ samples' = count
        /\ printed' = <<>>
        /\ resampled' = <<>>
        /\ UNCHANGED <<rng, seed, log, data, cell706, sample, cell257,
                       universe_shuffled, a, b, cell536, p, means>>

Iter438 ==
    /\ StepCell("cell438")
    /\ LET r == bootstrap(grp_1, grp_2, rng)
       IN  /\ rng' = r.rng
           /\ a' = r.new_a
           /\ b' = r.new_b
           /\ ctr' = IF Gt(Abs(Sub(Mean(r.new_a), Mean(r.new_b))), orig_mean)
                     THEN ctr + 1 ELSE ctr
           /\ resampled' = Append(resampled, <<r.new_a, r.new_b>>)
    /\ universe_shuffled' =
            Choice(grp_1 \o grp_2, Len(grp_1) + Len(grp_2), rng).out
    /\ UNCHANGED <<samples, printed, data, cell706, sample, cell257, cell536, p, means>>

\* str(ctr / samples) raises ZeroDivisionError when samples is 0
End438 ==
    /\ pc = "cell438"
    /\ printed' = IF samples = 0 THEN <<>> ELSE <<Rat(ctr, samples)>>
    /\ EndCell("cell438", <<grp_1, grp_2, samples>>,
               <<printed', resampled>>,
               IF samples = 0 THEN "ZeroDivisionError" ELSE "none")
    /\ UNCHANGED <<universe_shuffled, a, b, ctr, samples, resampled,
                   data, cell706, sample, cell257, cell536, p, means>>

----------------------------------------------------------------------------
(* Lines 536-550: the permutation loop *)

Start536 ==
    \E count \in 0..MaxSamples :
        /\ StartCell("cell536", count)
        /\ rng0' = rng
        /\ diffs' = <<>>
        /\ iterations' = count
        /\ shuffles' = <<>>
        /\ UNCHANGED <<rng, seed, log, data, cell706, sample, cell257, cell438,
                       Shuffled, p, means>>

Iter536 ==
    /\ StepCell("cell536")
    /\ LET r    == shuffle(Series(price), rng)
           col  == AssignColumn(Len(price), r.out)
           diff == MeanDiff(col)
       IN  /\ rng' = r.rng
           /\ Shuffled' = col
           /\ diffs' = Append(diffs, diff)
           /\ shuffles' = Append(shuffles, col)
    /\ UNCHANGED <<iterations, data, cell706, sample, cell257, cell438, p, means>>

End536 ==
    /\ EndCell("cell536", <<clarity, price, iterations>>, diffs, "none")
    /\ UNCHANGED <<data, cell706, sample, cell257, cell438, cell536, p, means>>

----------------------------------------------------------------------------
(* Line 561: the p-value of the permutation test.  diffs and iterations     *)
(* are not defined before cell 536 has run; the division raises when        *)
(* iterations is 0.                                                         *)

\* the count with a strict comparison: diffs > si2_mean - vvs1_mean
CountNonzero_strict(ds, obs) == Cardinality({k \in 1..Len(ds) : Gt(ds[k], obs)})

\* a count that stops at the first difference below the observed one
RECURSIVE CountNonzero_prefix(_, _)
CountNonzero_prefix(ds, obs) ==
    IF ds = <<>> \/ ~Ge(Head(ds), obs) THEN 0
    ELSE 1 + CountNonzero_prefix(Tail(ds), obs)

\* np.count_nonzero(diffs >= si2_mean - vvs1_mean)
CountNonzero(ds, obs) == Cardinality({k \in 1..Len(ds) : Ge(ds[k], obs)})

Cell561 ==
    /\ pc = "idle"
    /\ budget > 0
    /\ budget' = budget - 1
    /\ IF iterations < 0
       THEN /\ err' = "NameError"
            /\ p' = p
       ELSE IF iterations = 0
       THEN /\ err' = "ZeroDivisionError"
            /\ p' = p
       ELSE /\ err' = "none"
            /\ p' = <<Rat(CountNonzero(diffs, Sub(si2_mean, vvs1_mean)), iterations)>>
    /\ log' = Append(log, [cell |-> "cell561", seed |-> seed, rng0 |-> rng,
                           input |-> <<shuffles, iterations>>,
                           out |-> IF err' = "none" THEN p' ELSE <<>>,
                           err |-> err'])
    /\ UNCHANGED <<rng, pc, it, n, rng0, seed, data, cell706, sample, cell257, cell438,
                   cell536, means>>

----------------------------------------------------------------------------
(* Lines 607-613: means of bootstrap samples of the Berlin prices *)

Start607 ==
    \E count \in 0..MaxSamples :
        /\ StartCell("cell607", count)
        /\ rng0' = rng
        /\ means' = <<>>
        /\ UNCHANGED <<rng, seed, log, data, cell706, sample, cell257, cell438,
                       cell536, p>>

Iter607 ==
    /\ StepCell("cell607")
    /\ LET r == Choice(berlin_price, Len(berlin_price), rng)
       IN  /\ rng' = r.rng
           /\ sample' = r.out
           /\ means' = Append(means, Mean(r.out))
    /\ UNCHANGED <<data, cell706, cell257, cell438, cell536, p>>

End607 ==
    /\ EndCell("cell607", <<berlin_price, n>>, means, "none")
    /\ UNCHANGED <<data, cell706, sample, cell257, cell438, cell536, p, means>>

----------------------------------------------------------------------------
(* Lines 692-697 and 717-722: the coefficients of regressions fitted to     *)
(* bootstrap samples of the rows of df_plus_y.                              *)

\* range(100): the positions of the rows
RowIndex == [j \in 1..RegRows |-> j - 1]

\* k * sum(f * g) - sum(f) * sum(g) over the rows rs, k = len(rs): k * k times
\* the covariance of the columns f and g
Cov(rs, f, g) ==
    Len(rs) * Sum([j \in 1..Len(rs) |-> rs[j][f] * rs[j][g]])
        - Sum([j \in 1..Len(rs) |-> rs[j][f]]) * Sum([j \in 1..Len(rs) |-> rs[j][g]])

\* LinearRegression().fit(rows[['X1', 'X2']], rows['Y']).coef_ for at least
\* one row: the least-squares solution on the centred columns, the one of
\* least norm when the centred predictors have rank 1 or 0 (scipy's lstsq);
\* no exception is raised for a rank-deficient fit
Fit(rs) ==
    LET S11 == Cov(rs, "X1", "X1")
        S12 == Cov(rs, "X1", "X2")
        S22 == Cov(rs, "X2", "X2")
        S1y == Cov(rs, "X1", "Y")
        S2y == Cov(rs, "X2", "Y")
        det == S11 * S22 - S12 * S12
    IN  IF det # 0
        THEN <<Rat(S22 * S1y - S12 * S2y, det), Rat(S11 * S2y - S12 * S1y, det)>>
        ELSE IF S11 + S22 # 0
        THEN <<Rat(S1y, S11 + S22), Rat(S2y, S11 + S22)>>
        ELSE <<Rat(0, 1), Rat(0, 1)>>

\* df_plus_y.iloc[inds, :]
ILoc(frame, ix) == [j \in 1..Len(ix) |-> frame[ix[j] + 1]]

\* the fit of an empty frame raises ValueError (sklearn's check of the
\* number of samples) and the cell ends there
RaiseInLoop(name, input, out, error) ==
    /\ pc' = "idle"
    /\ err' = error
    /\ log' = Append(log, [cell |-> name, seed |-> seed, rng0 |-> rng0,
                           input |-> input, out |-> out, err |-> error])
    /\ UNCHANGED <<it, n, budget, rng0, seed>>

Start692 ==
    \E count \in 0..MaxSamples, k \in 0..MaxSize :
        /\ StartCell("cell692", count)
        /\ rng0' = rng
        /\ size' = k
        /\ X1_coefs' = <<>>
        /\ UNCHANGED <<rng, seed, log, data, df_plus_y, inds, lr, X2_coefs,
                       coefs_sorted, printed706, printed731, sample, cell257,
                       cell438, cell536, p, means>>

Iter692 ==
    /\ pc = "cell692"
    /\ it < n
    /\ LET r    == Choice(RowIndex, size, rng)
           rows == ILoc(df_plus_y, r.out)
       IN  /\ rng' = r.rng
           /\ inds' = r.out
           /\ IF Len(rows) = 0
              THEN /\ RaiseInLoop("cell692", <<df_plus_y, size, n>>, X1_coefs,
                                  "ValueError")
                   /\ UNCHANGED <<lr, X1_coefs>>
              ELSE /\ StepCell("cell692")
                   /\ lr' = Fit(rows)
                   /\ X1_coefs' = Append(X1_coefs, Fit(rows)[1])
    /\ UNCHANGED <<data, df_plus_y, size, X2_coefs, coefs_sorted, printed706,
                   printed731, sample, cell257, cell438, cell536, p, means>>

End692 ==
    /\ EndCell("cell692", <<df_plus_y, size, n>>, X1_coefs, "none")
    /\ UNCHANGED <<data, cell706, sample, cell257, cell438, cell536, p, means>>

Start717 ==
    \E count \in 0..MaxSamples, k \in 0..MaxSize :
        /\ StartCell("cell717", count)
        /\ rng0' = rng
        /\ size' = k
        /\ X2_coefs' = <<>>
        /\ UNCHANGED <<rng, seed, log, data, df_plus_y, inds, lr, X1_coefs,
                       coefs_sorted, printed706, printed731, sample, cell257,
                       cell438, cell536, p, means>>

Iter717 ==
    /\ pc = "cell717"
    /\ it < n
    /\ LET r    == Choice(RowIndex, size, rng)
           rows == ILoc(df_plus_y, r.out)
       IN  /\ rng' = r.rng
           /\ inds' = r.out
           /\ IF Len(rows) = 0
              THEN /\ RaiseInLoop("cell717", <<df_plus_y, size, n>>, X2_coefs,
                                  "ValueError")
                   /\ UNCHANGED <<lr, X2_coefs>>
              ELSE /\ StepCell("cell717")
                   /\ lr' = Fit(rows)
                   /\ X2_coefs' = Append(X2_coefs, Fit(rows)[2])
    /\ UNCHANGED <<data, df_plus_y, size, X1_coefs, coefs_sorted, printed706,
                   printed731, sample, cell257, cell438, cell536, p, means>>

End717 ==
    /\ EndCell("cell717", <<df_plus_y, size, n>>, X2_coefs, "none")
    /\ UNCHANGED <<data, cell706, sample, cell257, cell438, cell536, p, means>>

\* the kernel before the regression loops have looped, over the tables
\* tried: X1_coefs and X2_coefs are the empty lists of lines 692 and 717
InitReg ==
    /\ InitKernel({[s |-> DefaultSample, g |-> DefaultGroups,
                    d |-> DefaultDiamond, bp |-> DefaultBerlin]}, RegRuns)
    /\ \E t \in 0..MaxTable : df_plus_y = Table(t)
    /\ X1_coefs = <<>> /\ X2_coefs = <<>>
    /\ coefs_sorted = <<>> /\ printed706 = <<>> /\ printed731 = <<>>

----------------------------------------------------------------------------
(* Lines 706-708 and 731-733: the bounds read from the sorted coefficients. *)
(* print(coefs_sorted[k]) raises IndexError when the list has no index k.   *)

\* the two print() calls with the indices exchanged: coefs_sorted[974] first
PrintBounds_swapped(cs) ==
    IF Len(cs) > UpperIndex THEN <<cs[UpperIndex + 1], cs[LowerIndex + 1]>>
    ELSE <<>>

\* the two print() calls on the sorted list: what was printed before the
\* first failing index
PrintBounds(cs) ==
    IF Len(cs) > UpperIndex THEN <<cs[LowerIndex + 1], cs[UpperIndex + 1]>>
    ELSE IF Len(cs) > LowerIndex THEN <<cs[LowerIndex + 1]>>
    ELSE <<>>

Cell706 ==
    /\ pc = "idle"
    /\ budget > 0
    /\ budget' = budget - 1
    /\ coefs_sorted' = sorted(X1_coefs)
    /\ printed706' = PrintBounds(coefs_sorted')
    /\ err' = IF Len(X1_coefs) > UpperIndex THEN "none" ELSE "IndexError"
    /\ UNCHANGED <<rng, pc, it, n, rng0, seed, log, data, cell692, X1_coefs,
                   X2_coefs, printed731, sample, cell257, cell438, cell536, p,
                   means>>

Cell731 ==
    /\ pc = "idle"
    /\ budget > 0
    /\ budget' = budget - 1
    /\ coefs_sorted' = sorted(X2_coefs)
    /\ printed731' = PrintBounds(coefs_sorted')
    /\ err' = IF Len(X2_coefs) > UpperIndex THEN "none" ELSE "IndexError"
    /\ UNCHANGED <<rng, pc, it, n, rng0, seed, log, data, cell692, X1_coefs,
                   X2_coefs, printed706, sample, cell257, cell438, cell536, p,
                   means>>

\* the coefficient lists tried: NCoefs values k * stride + shift modulo q;
\* modulo 7 the list is full of ties, modulo 1013 all values differ
CoefList(stride, shift, q) ==
    [k \in 1..NCoefs |-> Rat((k * stride + shift) % q, 1)]

\* the kernel after the regression loops (lines 692-697, 717-722) have run
InitCI ==
    /\ InitKernel({[s |-> DefaultSample, g |-> DefaultGroups,
                    d |-> DefaultDiamond, bp |-> DefaultBerlin]}, MaxRuns)
    /\ df_plus_y = Table(0)
    /\ \E stride \in 1..MaxStride, shift \in 0..MaxShift, q \in {7, 1013} :
          /\ X1_coefs = CoefList(stride, shift, q)
          /\ X2_coefs = CoefList(stride + 1, shift + 1, q)
    /\ coefs_sorted = <<>> /\ printed706 = <<>> /\ printed731 = <<>>

NextCI == Cell706 \/ Cell731

----------------------------------------------------------------------------
(* "Run All" over the cells that compute the summaries: the two-sample      *)
(* bootstrap, the permutation loop, its p-value and the two interval cells, *)
(* once each in the order of the notebook.                                  *)

RunAllCells == <<"cell438", "cell536", "cell561", "cell706", "cell731">>

\* the cells before this one have run and this one has not
Turn(name) ==
    \E k \in 1..Len(RunAllCells) :
        RunAllCells[k] = name /\ budget = Len(RunAllCells) - k + 1

\* the list s begun r places later: the same values in another order
Rotate(s, r) == [j \in 1..Len(s) |-> s[((j - 1 + r) % Len(s)) + 1]]

\* the kernel before "Run All": groups of sizes 2 and 1, and two coefficient
\* lists that hold the same values in different orders
InitOrder ==
    /\ InitKernel({[s |-> DefaultSample, g |-> << <<0, MaxValue>>, <<MaxValue>> >>,
                    d |-> DefaultDiamond, bp |-> DefaultBerlin]}, Len(RunAllCells))
    /\ df_plus_y = Table(0)
    /\ \E r \in 1..MaxRotation, q \in {7, 1013} :
          /\ X1_coefs = CoefList(r, 0, q)
          /\ X2_coefs = Rotate(CoefList(r, 0, q), r)
    /\ coefs_sorted = <<>> /\ printed706 = <<>> /\ printed731 = <<>>

RunAll438 == Turn("cell438") /\ Start438
RunAll536 == Turn("cell536") /\ Start536
RunAll561 == Turn("cell561") /\ Cell561
RunAll706 == Turn("cell706") /\ Cell706
RunAll731 == Turn("cell731") /\ Cell731

NextOrder ==
    \/ RunAll438 \/ Iter438 \/ End438
    \/ RunAll536 \/ Iter536 \/ End536
    \/ RunAll561
    \/ RunAll706
    \/ RunAll731

\* the regression loops and the cells reading their bounds
NextReg ==
    \/ Start692 \/ Iter692 \/ End692
    \/ Start717 \/ Iter717 \/ End717
    \/ Cell706 \/ Cell731

----------------------------------------------------------------------------
Next ==
    \/ Start257 \/ Iter257 \/ End257
    \/ Start438 \/ Iter438 \/ End438
    \/ Start536 \/ Iter536 \/ End536
    \/ Cell561
    \/ Start607 \/ Iter607 \/ End607

Spec == Init /\ [][Next]_vars

SpecSession == InitSession /\ [][Next]_vars

SpecCI == InitCI /\ [][NextCI]_vars

SpecReg == InitReg /\ [][NextReg]_vars

SpecOrder == InitOrder /\ [][NextOrder]_vars

----------------------------------------------------------------------------
(* Properties *)

\* s and t hold the same values the same number of times
SameBag(s, t) ==
    /\ Len(s) = Len(t)
    /\ \A j \in 1..Len(s) :
          Cardinality({k \in 1..Len(s) : s[k] = s[j]})
            = Cardinality({k \in 1..Len(t) : t[k] = s[j]})

\* the difference of means a.mean() - b.mean() of one recorded resample
ResampledDiff(k) == Sub(Mean(resampled[k][1]), Mean(resampled[k][2]))

\* the observed difference of the two original groups
Observed438 == Sub(Mean(grp_2), Mean(grp_1))

\* C1: the p-value printed by the two-sample bootstrap is the number of
\* resampled differences d with |d| > |observed difference|, divided by the
\* resample count, the absolute value being taken on both sides.
C1_PValueAbsBothSides ==
    printed # <<>> =>
        printed[1] =
            Rat(Cardinality({k \in 1..Len(resampled) :
                                Gt(Abs(ResampledDiff(k)), Abs(Observed438))}),
                Len(resampled))

\* the log entries of one cell
RunsOf(name) == {j \in 1..Len(log) : log[j].cell = name}

\* SI2 mean minus VVS1 mean of the prices as loaded
Observed561 ==
    Sub(Mean(Select(price, Mask("SI2"))), Mean(Select(price, Mask("VVS1"))))

\* the permuted differences at or above, and above, the observed difference
TailGe(cols) == {k \in 1..Len(cols) : Ge(MeanDiff(cols[k]), Observed561)}
TailGt(cols) == {k \in 1..Len(cols) : Gt(MeanDiff(cols[k]), Observed561)}

Pool561 == Select(price, Mask("SI2")) \o Select(price, Mask("VVS1"))

\* C4: in every iteration of the permutation loop the two permuted groups
\* have the sizes of the original groups and together hold exactly the
\* values of the two original groups.
C4_PermutedGroupsArePool ==
    \A k \in 1..Len(shuffles) :
        LET new_a == Select(shuffles[k], Mask("SI2"))
            new_b == Select(shuffles[k], Mask("VVS1"))
        IN  /\ Len(new_a) = Len(Select(price, Mask("SI2")))
            /\ Len(new_b) = Len(Select(price, Mask("VVS1")))
            /\ SameBag(new_a \o new_b, Pool561)

\* C5: every shuffle of the permutation loop is a permutation of the price
\* column: same length, every element exactly once.
C5_ShuffleIsPermutation ==
    /\ \A k \in 1..Len(shuffles) : SameBag(shuffles[k], price)
    /\ (Shuffled # <<>> => SameBag(Shuffled, price))

\* a shuffle moved the prices, and the prices are not all equal
C5_Witness ==
    /\ Shuffled # <<>>
    /\ Shuffled # price
    /\ \E j, k \in 1..Len(price) : price[j] # price[k]

\* the values of a sequence
Range(s) == {s[j] : j \in 1..Len(s)}

\* C6: bootstrap(a, b) returns the first len(a) and the remaining len(b)
\* draws of one resample of size len(a) + len(b) of the pooled universe.
C6_BootstrapSplit ==
    resampled # <<>> =>
        /\ Len(a) = Len(grp_1)
        /\ Len(b) = Len(grp_2)
        /\ Len(universe_shuffled) = Len(grp_1) + Len(grp_2)
        /\ a = SubSeq(universe_shuffled, 1, Len(grp_1))
        /\ b = SubSeq(universe_shuffled, Len(grp_1) + 1, Len(grp_1) + Len(grp_2))
        /\ Range(a) \cup Range(b) \subseteq Range(grp_1) \cup Range(grp_2)

\* groups of different sizes were resampled, a value of grp_2 landed in the
\* new a, and the new b holds a duplicate
C6_Witness ==
    /\ resampled # <<>>
    /\ Len(grp_1) # Len(grp_2)
    /\ \E j \in 1..Len(a) : a[j] \notin Range(grp_1)
    /\ Len(b) = 2 /\ b[1] = b[2] /\ grp_2[1] # grp_2[2]

\* C7: the single-sample bootstrap loops run exactly N iterations and record
\* one value per iteration: after i iterations i values, at the end N.
C7_OneValuePerIteration ==
    /\ pc = "cell257" =>
          /\ it <= n
          /\ Len(bootstrap_samples) = it
          /\ Len(bootstrap_sample_means) = n
          /\ Len(bootstrap_sample_95pcts) = n
    /\ pc = "cell607" => (it <= n /\ Len(means) = it)
    /\ \A j \in RunsOf("cell257") :
          /\ Len(log[j].out[1]) = log[j].input[2]
          /\ Len(log[j].out[2]) = log[j].input[2]
    /\ \A j \in RunsOf("cell607") : Len(log[j].out) = log[j].input[2]
    /\ (pc = "idle" /\ log # <<>> /\ log[Len(log)].cell = "cell257") =>
          (it = n /\ Len(bootstrap_samples) = n)
    /\ (pc = "idle" /\ log # <<>> /\ log[Len(log)].cell = "cell607") =>
          (it = n /\ Len(means) = n)

\* both loops have completed a run of at least two iterations
C7_Witness ==
    /\ \E j \in RunsOf("cell257") : log[j].input[2] >= 2
    /\ \E j \in RunsOf("cell607") : log[j].input[2] >= 2

\* 0 <= x <= 1
InUnit(x) == x.den > 0 /\ 0 <= x.num /\ x.num <= x.den

\* the permuted differences of a logged run of line 561
PermDiff(j, k) == MeanDiff(log[j].input[1][k])

\* C8: the p-values of the two-sample bootstrap and of the permutation test
\* lie in [0,1] and the tail counter never exceeds the number of completed
\* iterations; the p-value is 0 when the observed difference exceeds every
\* resampled/permuted difference and 1 when every one of them exceeds the
\* observed difference.  The two-sample bootstrap compares absolute values
\* (its p-value counts |d| > |observed|), the permutation test signed values.
C8_PValueRangeAndExtremes ==
    /\ pc = "cell438" => ctr <= it
    /\ printed # <<>> =>
          /\ InUnit(printed[1])
          /\ (\A k \in 1..Len(resampled) :
                 Gt(Abs(Observed438), Abs(ResampledDiff(k))))
                => printed[1] = Rat(0, 1)
          /\ (\A k \in 1..Len(resampled) :
                 Gt(Abs(ResampledDiff(k)), Abs(Observed438)))
                => printed[1] = Rat(1, 1)
    /\ \A j \in RunsOf("cell561") :
          log[j].err = "none" =>
              /\ InUnit(log[j].out[1])
              /\ (\A k \in 1..Len(log[j].input[1]) : Gt(Observed561, PermDiff(j, k)))
                    => log[j].out[1] = Rat(0, 1)
              /\ (\A k \in 1..Len(log[j].input[1]) : Gt(PermDiff(j, k), Observed561))
                    => log[j].out[1] = Rat(1, 1)

\* the resampling loops
Loops == {"cell257", "cell438", "cell536", "cell607"}

\* C9 as stated: two runs of a resampling loop that start from the same seed
\* and the same inputs have the same output, whatever ran on the generator
\* before them.
C9_Original ==
    \A j, k \in 1..Len(log) :
        (/\ log[j].cell \in Loops
         /\ log[j].cell = log[k].cell
         /\ log[j].seed = log[k].seed
         /\ log[j].input = log[k].input)
        => log[j].out = log[k].out

\* C9 as amended: two runs of the seeded single-sample bootstrap (lines
\* 257-280) with the same inputs have the same output, whatever ran before
\* them; two runs of another resampling loop have the same output when they
\* start from the same generator state and the same inputs.
C9_Deterministic ==
    \A j, k \in 1..Len(log) :
        (/\ log[j].cell \in Loops
         /\ log[j].cell = log[k].cell
         /\ log[j].input = log[k].input
         /\ (log[j].cell = "cell257" \/ log[j].rng0 = log[k].rng0))
        => log[j].out = log[k].out

\* the seeded loop ran twice on the same inputs with draws in between, and
\* the two-sample p-value loop ran twice from the same generator state
C9_Witness ==
    /\ Len(log) = 4
    /\ log[1].cell = "cell257" /\ log[3].cell = "cell257"
    /\ log[1].input = log[3].input /\ log[1].input[2] >= 1
    /\ log[2].cell = "cell438" /\ log[4].cell = "cell438"
    /\ log[2].input = log[4].input /\ log[2].input[3] >= 1
    /\ log[2].rng0 = log[4].rng0

\* C10: a two-sample bootstrap with an empty sample or with a resample count
\* below 1 fails with InvalidInput before any iteration runs and produces
\* neither a distribution nor a p-value.
C10_InvalidInputRejected ==
    /\ (pc = "cell438" /\ (grp_1 = <<>> \/ grp_2 = <<>> \/ samples < 1)) => it = 0
    /\ \A j \in RunsOf("cell438") :
          (log[j].input[1] = <<>> \/ log[j].input[2] = <<>> \/ log[j].input[3] < 1)
          => (log[j].err = "InvalidInput" /\ log[j].out = << <<>>, <<>> >>)

\* v is the value of the ascending-sorted d at the 0-indexed rank r
AtRank(d, r, v) ==
    /\ Cardinality({j \in 1..Len(d) : Gt(v, d[j])}) <= r
    /\ r < Cardinality({j \in 1..Len(d) : Ge(v, d[j])})

\* floor(N * (1 - 0.95) / 2) and floor(N * (1 + 0.95) / 2)
LowerRank(N) == (N * 5) \div 200
UpperRank(N) == (N * 195) \div 200

\* C2 as stated: the bounds read from the N = 1000 coefficients are the values
\* of the ascending-sorted distribution at the 0-indexed ranks
\* floor(N*(1-0.95)/2) and floor(N*(1+0.95)/2).
C2_Original ==
    /\ printed706 # <<>> =>
          /\ Len(printed706) = 2
          /\ AtRank(X1_coefs, LowerRank(Len(X1_coefs)), printed706[1])
          /\ AtRank(X1_coefs, UpperRank(Len(X1_coefs)), printed706[2])
    /\ printed731 # <<>> =>
          /\ Len(printed731) = 2
          /\ AtRank(X2_coefs, LowerRank(Len(X2_coefs)), printed731[1])
          /\ AtRank(X2_coefs, UpperRank(Len(X2_coefs)), printed731[2])

\* C2 as amended: the bounds read from the N = 1000 coefficients are the
\* values of the ascending-sorted distribution at the 0-indexed ranks
\* floor(N*(1-0.95)/2) - 1 = 24 and floor(N*(1+0.95)/2) - 1 = 974.
C2_BoundsAtRanks ==
    /\ Len(X1_coefs) = NCoefs /\ Len(X2_coefs) = NCoefs
    /\ LowerRank(NCoefs) - 1 = LowerIndex /\ UpperRank(NCoefs) - 1 = UpperIndex
    /\ printed706 # <<>> =>
          /\ Len(printed706) = 2
          /\ AtRank(X1_coefs, LowerRank(Len(X1_coefs)) - 1, printed706[1])
          /\ AtRank(X1_coefs, UpperRank(Len(X1_coefs)) - 1, printed706[2])
    /\ printed731 # <<>> =>
          /\ Len(printed731) = 2
          /\ AtRank(X2_coefs, LowerRank(Len(X2_coefs)) - 1, printed731[1])
          /\ AtRank(X2_coefs, UpperRank(Len(X2_coefs)) - 1, printed731[2])

\* both pairs of bounds were read from lists that were not in order, and for
\* X1_coefs neither bound is the value one rank higher
C2_Witness ==
    /\ Len(printed706) = 2 /\ Len(printed731) = 2
    /\ X1_coefs # sorted(X1_coefs)
    /\ ~AtRank(X1_coefs, LowerRank(NCoefs), printed706[1])
    /\ ~AtRank(X1_coefs, UpperRank(NCoefs), printed706[2])

\* the logged runs of the two regression loops
RegressionRuns == RunsOf("cell692") \cup RunsOf("cell717")

CountOf(j) == log[j].input[Len(log[j].input)]

\* C12: resampling leaves its inputs unchanged: no step of the single-sample
\* bootstrap, of bootstrap(a, b) or of the permutation loop changes the
\* sequence of observations of a loaded sample; and nothing but the state of
\* the random generator is carried from one resampling call to the next: two
\* runs of a loop from the same generator state with the same resample count
\* have the same output.
C12_InputsUnchanged ==
    /\ [][/\ sample' = sample
          /\ grp_1' = grp_1 /\ grp_2' = grp_2
          /\ clarity' = clarity /\ price' = price
          /\ berlin_price' = berlin_price]_vars
    /\ [](\A j, k \in 1..Len(log) :
            (/\ log[j].cell \in Loops
             /\ log[j].cell = log[k].cell
             /\ log[j].rng0 = log[k].rng0
             /\ CountOf(j) = CountOf(k))
            => log[j].out = log[k].out)

\* C13: the confidence-interval bounds read from the sorted distribution
\* satisfy lower <= upper.
C13_LowerLeUpper ==
    /\ Len(printed706) = 2 => Ge(printed706[2], printed706[1])
    /\ Len(printed731) = 2 => Ge(printed731[2], printed731[1])

\* both pairs of bounds were read, and in the list as appended the value at
\* position 24 is above the value at position 974
C13_Witness ==
    /\ Len(printed706) = 2 /\ Len(printed731) = 2
    /\ Gt(X1_coefs[LowerIndex + 1], X1_coefs[UpperIndex + 1])
    /\ Gt(printed706[2], printed706[1])

\* the orders of n values: the bijections of 1..n
Perms(k) == {f \in [1..k -> 1..k] : \A i, j \in 1..k : f[i] = f[j] => i = j}

\* the sequence s in the order f
Permuted(s, f) == [j \in 1..Len(s) |-> s[f[j]]]

\* the strict tail count of lines 439-443 over a distribution of differences
RECURSIVE CountGreater(_, _)
CountGreater(ds, obs) ==
    IF ds = <<>> THEN 0
    ELSE (IF Gt(Head(ds), obs) THEN 1 ELSE 0) + CountGreater(Tail(ds), obs)

\* the distribution of the two-sample bootstrap: |a.mean() - b.mean()| of
\* every resample
AbsDiffs == [k \in 1..Len(resampled) |-> Abs(ResampledDiff(k))]

\* the distribution of permuted differences of a logged run of line 561
DiffsOf(j) == [k \in 1..Len(log[j].input[1]) |-> PermDiff(j, k)]

\* C14: the summaries do not depend on the order of the iterations: the
\* p-value of the two-sample bootstrap is the strict (>) tail count of its
\* distribution taken in any order, the permutation p-value is the >= tail
\* count of line 561 applied to its distribution in any order, and two
\* coefficient lists that hold the same values in different orders give the
\* same confidence-interval bounds.
C14_OrderIrrelevant ==
    /\ printed # <<>> =>
          \A f \in Perms(Len(AbsDiffs)) :
              printed[1] = Rat(CountGreater(Permuted(AbsDiffs, f), orig_mean), samples)
    /\ \A j \in RunsOf("cell561") :
          log[j].err = "none" =>
              \A f \in Perms(Len(DiffsOf(j))) :
                  log[j].out =
                      <<Rat(CountNonzero(Permuted(DiffsOf(j), f), Observed561),
                            log[j].input[2])>>
    /\ (/\ Len(printed706) = 2 /\ Len(printed731) = 2
        /\ \E r \in 1..MaxRotation : X2_coefs = Rotate(X1_coefs, r))
          => printed706 = printed731

\* all three summaries were computed: the bootstrap distribution and the
\* permutation distribution each hold a value in the tail and a value
\* outside it, so that their orders differ, and the two coefficient lists
\* are in different orders
C14_Witness ==
    /\ printed # <<>>
    /\ \E i, k \in 1..Len(AbsDiffs) :
          ~Gt(AbsDiffs[i], orig_mean) /\ Gt(AbsDiffs[k], orig_mean)
    /\ \E j \in RunsOf("cell561") :
          /\ log[j].err = "none"
          /\ \E i, k \in 1..Len(DiffsOf(j)) :
                /\ ~Ge(DiffsOf(j)[i], Observed561)
                /\ Ge(DiffsOf(j)[k], Observed561)
    /\ Len(printed706) = 2 /\ Len(printed731) = 2
    /\ X1_coefs # X2_coefs

====
